---------------------------- MODULE Spec2Model ----------------------------
(***************************************************************************)
(* A model of the four error-correcting codecs of error-codes-explorer:    *)
(* Hamming(7,4)/(8,4), Reed-Solomon over GF(2^8), min-sum LDPC and polar   *)
(* successive cancellation.  Arrays of the source are sequences here, so   *)
(* the source's 0-based index i is the sequence index i + 1 (operator At). *)
(* Each codec has its own specification; the variables of the other codecs *)
(* stay at their constructor values.                                       *)
(***************************************************************************)
EXTENDS Integers, Sequences, FiniteSets, TLC

VARIABLES
  \* Hamming component (hamming.ts)
  dataBits, useExtended, errorPosition,
  \* Hamming syndrome and correction applied to an arbitrary received word
  \* (hamming.ts:89-100, 124-140)
  wordExtended, wordReceived, wordPc, wordOut,
  \* GF(2^8) arithmetic harness (reed-solomon.ts:29-46)
  gfA, gfB, gfPc, gfOut,
  \* Reed-Solomon codec harness (reed-solomon.ts:68-214, 285-355)
  rsMsg, rsNsym, rsPc, rsMsgAfter, rsEncoded, rsReceived, rsErrCount, rsResult,
  \* Reed-Solomon component (reed-solomon.ts:229-449)
  nSymbols, messageInput, rsErrorPositions,
  \* Polar component (polar.ts)
  polarN, polarK, erasureProb, infoBits, polarErrors,
  \* LDPC component (ldpc.ts)
  hMatrix, ldpcErrors, maxIterations, activeIteration, bpPc, varToCheck, iterations

hammingVars == <<dataBits, useExtended, errorPosition>>
wordVars == <<wordExtended, wordReceived, wordPc, wordOut>>
gfVars == <<gfA, gfB, gfPc, gfOut>>
rsVars ==
  <<rsMsg, rsNsym, rsPc, rsMsgAfter, rsEncoded, rsReceived, rsErrCount, rsResult,
    nSymbols, messageInput, rsErrorPositions>>
polarVars == <<polarN, polarK, erasureProb, infoBits, polarErrors>>
ldpcVars ==
  <<hMatrix, ldpcErrors, maxIterations, activeIteration, bpPc, varToCheck, iterations>>
vars == <<hammingVars, wordVars, gfVars, rsVars, polarVars, ldpcVars>>

(***************************************************************************)
(* Arithmetic of the source language                                       *)
(***************************************************************************)

\* a[i] of a 0-based array
At(s, i) == s[i + 1]

\* an array given by its elements, held as an explicit sequence
Array(f) == SubSeq(f, 1, Len(f))

\* a ^ b on non-negative integers
RECURSIVE Xor(_, _)
Xor(a, b) ==
  IF a = 0 THEN b
  ELSE IF b = 0 THEN a
  ELSE (((a % 2) + (b % 2)) % 2) + 2 * Xor(a \div 2, b \div 2)

Min(a, b) == IF a <= b THEN a ELSE b
Abs(a) == IF a < 0 THEN 0 - a ELSE a

\* the result of a call that may throw
Return(v) == [threw |-> FALSE, error |-> "", value |-> v]
Throw(msg) == [threw |-> TRUE, error |-> msg, value |-> <<>>]

(***************************************************************************)
(* Hamming codec (hamming.ts)                                              *)
(***************************************************************************)

\* errorPosition = null is the empty sequence, errorPosition = p is <<p>>
NoError == <<>>

HammingEncoded(d, ext) ==
  LET p1 == Xor(Xor(At(d, 0), At(d, 1)), At(d, 3))
      p2 == Xor(Xor(At(d, 0), At(d, 2)), At(d, 3))
      p4 == Xor(Xor(At(d, 1), At(d, 2)), At(d, 3))
      codeword == <<p1, p2, At(d, 0), p4, At(d, 1), At(d, 2), At(d, 3)>>
      p0 == Xor(Xor(Xor(Xor(Xor(Xor(p1, p2), At(d, 0)), p4), At(d, 1)), At(d, 2)), At(d, 3))
  IN IF ext THEN <<p0>> \o codeword ELSE codeword

HammingReceived(enc, errPos) ==
  IF errPos # NoError /\ errPos[1] >= 0 /\ errPos[1] < Len(enc)
  THEN [enc EXCEPT ![errPos[1] + 1] = Xor(@, 1)]
  ELSE enc

\* the syndrome value summed without the weight-4 check
HammingSyndromeWithoutS4(r, ext) ==
  LET word == IF ext THEN Tail(r) ELSE r
      s1 == Xor(Xor(Xor(At(word, 0), At(word, 2)), At(word, 4)), At(word, 6))
      s2 == Xor(Xor(Xor(At(word, 1), At(word, 2)), At(word, 5)), At(word, 6))
      s4 == Xor(Xor(Xor(At(word, 3), At(word, 4)), At(word, 5)), At(word, 6))
  IN [s1 |-> s1, s2 |-> s2, s4 |-> s4, value |-> s1 * 1 + s2 * 2]

HammingSyndrome(r, ext) ==
  LET word == IF ext THEN Tail(r) ELSE r
      s1 == Xor(Xor(Xor(At(word, 0), At(word, 2)), At(word, 4)), At(word, 6))
      s2 == Xor(Xor(Xor(At(word, 1), At(word, 2)), At(word, 5)), At(word, 6))
      s4 == Xor(Xor(Xor(At(word, 3), At(word, 4)), At(word, 5)), At(word, 6))
  IN [s1 |-> s1, s2 |-> s2, s4 |-> s4, value |-> s1 * 1 + s2 * 2 + s4 * 4]

\* the correction adding the offset of the overall parity bit to the extended index
HammingCorrectedPastParity(r, syn, ext) ==
  IF syn.value = 0
  THEN [word |-> r, errorAt |-> -1, message |-> "no errors detected"]
  ELSE LET errorIdx == IF ext THEN syn.value + 1 ELSE syn.value - 1
       IN IF errorIdx >= 0 /\ errorIdx < Len(r)
          THEN [word |-> [r EXCEPT ![errorIdx + 1] = Xor(@, 1)],
                errorAt |-> errorIdx, message |-> "error corrected"]
          ELSE [word |-> r, errorAt |-> -1, message |-> "syndrome points outside the word"]

\* the correction reading the 1-based syndrome value as a 0-based index in both modes
HammingCorrectedOneBased(r, syn, ext) ==
  IF syn.value = 0
  THEN [word |-> r, errorAt |-> -1, message |-> "no errors detected"]
  ELSE LET errorIdx == syn.value
       IN IF errorIdx >= 0 /\ errorIdx < Len(r)
          THEN [word |-> [r EXCEPT ![errorIdx + 1] = Xor(@, 1)],
                errorAt |-> errorIdx, message |-> "error corrected"]
          ELSE [word |-> r, errorAt |-> -1, message |-> "syndrome points outside the word"]

HammingCorrected(r, syn, ext) ==
  IF syn.value = 0
  THEN [word |-> r, errorAt |-> -1, message |-> "no errors detected"]
  ELSE LET errorIdx == IF ext THEN syn.value ELSE syn.value - 1
       IN IF errorIdx >= 0 /\ errorIdx < Len(r)
          THEN [word |-> [r EXCEPT ![errorIdx + 1] = Xor(@, 1)],
                errorAt |-> errorIdx, message |-> "error corrected"]
          ELSE [word |-> r, errorAt |-> -1, message |-> "syndrome points outside the word"]

\* the computed signals of the component in the current state
encoded == HammingEncoded(dataBits, useExtended)
received == HammingReceived(encoded, errorPosition)
syndrome == HammingSyndrome(received, useExtended)
corrected == HammingCorrected(received, syndrome, useExtended)

Bits == {0, 1}

HammingConstructed ==
  /\ dataBits = <<1, 0, 1, 1>>
  /\ useExtended = FALSE
  /\ errorPosition = NoError

toggleDataBit(index) ==
  /\ dataBits' = [dataBits EXCEPT ![index + 1] = Xor(@, 1)]
  /\ errorPosition' = NoError
  /\ UNCHANGED useExtended
  /\ UNCHANGED <<wordVars, gfVars, rsVars, polarVars, ldpcVars>>

\* setDataBits(bits) and randomData() both store four bits and clear the error
setDataBits(bits) ==
  /\ dataBits' = bits
  /\ errorPosition' = NoError
  /\ UNCHANGED useExtended
  /\ UNCHANGED <<wordVars, gfVars, rsVars, polarVars, ldpcVars>>

injectError(position) ==
  /\ errorPosition' = IF errorPosition = <<position>> THEN NoError ELSE <<position>>
  /\ UNCHANGED <<dataBits, useExtended>>
  /\ UNCHANGED <<wordVars, gfVars, rsVars, polarVars, ldpcVars>>

clearError ==
  /\ errorPosition' = NoError
  /\ UNCHANGED <<dataBits, useExtended>>
  /\ UNCHANGED <<wordVars, gfVars, rsVars, polarVars, ldpcVars>>

\* randomError(): Math.floor(Math.random() * len) is any index of the codeword
randomError ==
  /\ \E p \in 0..(Len(encoded) - 1) : errorPosition' = <<p>>
  /\ UNCHANGED <<dataBits, useExtended>>
  /\ UNCHANGED <<wordVars, gfVars, rsVars, polarVars, ldpcVars>>

\* the useExtended signal is written by the page's checkbox
setUseExtended(b) ==
  /\ useExtended' = b
  /\ UNCHANGED <<dataBits, errorPosition>>
  /\ UNCHANGED <<wordVars, gfVars, rsVars, polarVars, ldpcVars>>

HammingNext ==
  \/ \E i \in 0..3 : toggleDataBit(i)
  \/ \E bits \in [1..4 -> Bits] : setDataBits(bits)
  \/ \E p \in 0..(Len(encoded) - 1) : injectError(p)
  \/ clearError
  \/ randomError
  \/ \E b \in BOOLEAN : setUseExtended(b)

\* The syndrome and the correction read nothing but the received word and the
\* mode, so they are also applied to every word of the selected length.
WordLength(ext) == IF ext THEN 8 ELSE 7

WordIdle ==
  /\ wordExtended = FALSE
  /\ wordReceived = HammingEncoded(<<1, 0, 1, 1>>, FALSE)
  /\ wordPc = "received"
  /\ wordOut = [syndrome |-> [s1 |-> 0, s2 |-> 0, s4 |-> 0, value |-> 0],
                corrected |-> [word |-> <<>>, errorAt |-> -1, message |-> "not decoded"]]

WordInit ==
  /\ wordExtended \in BOOLEAN
  /\ wordReceived \in [1..WordLength(wordExtended) -> Bits]
  /\ wordPc = "received"
  /\ wordOut = [syndrome |-> [s1 |-> 0, s2 |-> 0, s4 |-> 0, value |-> 0],
                corrected |-> [word |-> <<>>, errorAt |-> -1, message |-> "not decoded"]]

\* syndrome(), then corrected(), of the received word
WordDecode ==
  /\ wordPc = "received"
  /\ wordPc' = "decoded"
  /\ LET syn == HammingSyndrome(wordReceived, wordExtended)
     IN wordOut' = [syndrome |-> syn,
                    corrected |-> HammingCorrected(wordReceived, syn, wordExtended)]
  /\ UNCHANGED <<wordExtended, wordReceived>>
  /\ UNCHANGED <<hammingVars, gfVars, rsVars, polarVars, ldpcVars>>

WordNext == WordDecode


(***************************************************************************)
(* GF(2^8) arithmetic (reed-solomon.ts:4-46)                               *)
(***************************************************************************)

GF_POLY == 285
GF_SIZE == 256

\* an element of `new Array(n)` that was never assigned
ArrayHole == -2

\* new Array(n): n holes, as an explicit sequence
NewArray(n) == Array([i \in 1..n |-> ArrayHole])

\* body of the first loop of initGF: gfExp[i] = x; gfLog[x] = i; x = x << 1,
\* reduced by the polynomial once it leaves the byte range
InitGFStep(i, s) ==
  LET shifted == s.x * 2
  IN [x |-> IF shifted >= GF_SIZE THEN Xor(shifted, GF_POLY) % 256 ELSE shifted,
      exp |-> [s.exp EXCEPT ![i + 1] = s.x],
      log |-> [s.log EXCEPT ![s.x + 1] = i]]

\* the second loop of initGF copying with a period of 254
InitGFWrapStepShort(i, s) ==
  [x |-> s.x, exp |-> [s.exp EXCEPT ![i + 1] = At(s.exp, i - 254)], log |-> s.log]

\* body of the second loop of initGF: gfExp[i] = gfExp[i - 255]
InitGFWrapStep(i, s) ==
  [x |-> s.x, exp |-> [s.exp EXCEPT ![i + 1] = At(s.exp, i - 255)], log |-> s.log]

\* for (i = lo; i < hi; i++) of initGF, the bodies run in index order.  The
\* range is halved, and the first half evaluated before the second is
\* entered (x is never negative), only to keep the evaluation shallow.
RECURSIVE InitGFLoop(_, _, _, _)
InitGFLoop(lo, hi, wrap, s) ==
  IF lo >= hi THEN s
  ELSE IF hi - lo = 1 THEN (IF wrap THEN InitGFWrapStep(lo, s) ELSE InitGFStep(lo, s))
  ELSE LET mid == (lo + hi) \div 2
           first == InitGFLoop(lo, mid, wrap, s)
       IN IF first.x >= 0 THEN InitGFLoop(mid, hi, wrap, first) ELSE first

initGF ==
  LET fresh == [x |-> 1, exp |-> NewArray(512), log |-> NewArray(256)]
      powers == InitGFLoop(0, 255, FALSE, fresh)
      wrapped == InitGFLoop(255, 512, TRUE, powers)
  IN [exp |-> wrapped.exp, log |-> [wrapped.log EXCEPT ![0 + 1] = -1]]

\* the two tables, 0-based: gfExp[i] is At(gfExp, i)
gfExp == initGF.exp
gfLog == initGF.log

gfMul(a, b) ==
  IF a = 0 \/ b = 0 THEN 0 ELSE At(gfExp, At(gfLog, a) + At(gfLog, b))

\* gfDiv testing the dividend first: 0 / 0 would return 0
gfDivZeroDividendFirst(a, b) ==
  IF a = 0 THEN Return(0)
  ELSE IF b = 0 THEN Throw("Division by zero in GF")
  ELSE Return(At(gfExp, (At(gfLog, a) - At(gfLog, b) + 255) % 255))

\* gfDiv without the + 255 that keeps the exponent difference non-negative:
\* the remainder of a negative difference is negative, and gfExp has no such index
gfDivNoBias(a, b) ==
  IF b = 0 THEN Throw("Division by zero in GF")
  ELSE IF a = 0 THEN Return(0)
  ELSE LET d == At(gfLog, a) - At(gfLog, b)
       IN Return(IF d < 0 THEN ArrayHole ELSE At(gfExp, d % 255))

gfDiv(a, b) ==
  IF b = 0 THEN Throw("Division by zero in GF")
  ELSE IF a = 0 THEN Return(0)
  ELSE Return(At(gfExp, (At(gfLog, a) - At(gfLog, b) + 255) % 255))

\* gfInverse reading the table one entry too low
gfInverseOffByOne(x) == At(gfExp, 254 - At(gfLog, x))

gfInverse(x) == At(gfExp, 255 - At(gfLog, x))

\* The harness draws two field elements and applies the arithmetic to them.
GfIdle ==
  /\ gfA = 0
  /\ gfB = 0
  /\ gfPc = "input"
  /\ gfOut = [product |-> 0, quotient |-> Return(0), inverse |-> 0, unit |-> 0,
              exp |-> <<>>, logOfExp |-> <<>>]

GfInit ==
  /\ gfA \in 0..(GF_SIZE - 1)
  /\ gfB \in 0..(GF_SIZE - 1)
  /\ gfPc = "input"
  /\ gfOut = [product |-> 0, quotient |-> Return(0), inverse |-> 0, unit |-> 0,
              exp |-> <<>>, logOfExp |-> <<>>]

\* gfDiv(gfMul(a, b), b)
GfMulThenDiv ==
  /\ gfPc = "input"
  /\ gfPc' = "divided"
  /\ gfOut' = [gfOut EXCEPT !.product = gfMul(gfA, gfB),
                            !.quotient = gfDiv(gfMul(gfA, gfB), gfB)]
  /\ UNCHANGED <<gfA, gfB>>
  /\ UNCHANGED <<hammingVars, wordVars, rsVars, polarVars, ldpcVars>>

\* gfMul(a, gfInverse(a)); callers never pass 0 to gfInverse
GfInvertThenMul ==
  /\ gfPc = "input"
  /\ gfA # 0
  /\ gfPc' = "inverted"
  /\ gfOut' = [gfOut EXCEPT !.inverse = gfInverse(gfA),
                            !.unit = gfMul(gfA, gfInverse(gfA))]
  /\ UNCHANGED <<gfA, gfB>>
  /\ UNCHANGED <<hammingVars, wordVars, rsVars, polarVars, ldpcVars>>

\* gfDiv(a, b) on any two field elements, b = 0 included
GfDivide ==
  /\ gfPc = "input"
  /\ gfPc' = "quotient"
  /\ gfOut' = [gfOut EXCEPT !.quotient = gfDiv(gfA, gfB)]
  /\ UNCHANGED <<gfA, gfB>>
  /\ UNCHANGED <<hammingVars, wordVars, rsVars, polarVars, ldpcVars>>

\* the table entries a caller reads: gfExp at a, b, a + 1, a + 255 and
\* a + 256, and gfLog at gfExp[a] and gfExp[b]
GfLookup ==
  /\ gfPc = "input"
  /\ gfPc' = "looked up"
  /\ gfOut' = [gfOut EXCEPT
                 !.exp = [a |-> At(gfExp, gfA), b |-> At(gfExp, gfB),
                          next |-> At(gfExp, gfA + 1),
                          wrapped |-> At(gfExp, gfA + 255),
                          wrappedNext |-> At(gfExp, gfA + 256)],
                 !.logOfExp = [a |-> At(gfLog, At(gfExp, gfA)),
                               b |-> At(gfLog, At(gfExp, gfB))]]
  /\ UNCHANGED <<gfA, gfB>>
  /\ UNCHANGED <<hammingVars, wordVars, rsVars, polarVars, ldpcVars>>

GfNext ==
  \/ GfLookup
  \/ GfMulThenDiv
  \/ GfDivide
  \/ GfInvertThenMul

(***************************************************************************)
(* Polynomials over GF(2^8), highest degree first (reed-solomon.ts:48-65)  *)
(***************************************************************************)

\* the XOR of gfMul(p[i], q[k - i]) over the i from `i` on: what the double
\* loop of polyMul has accumulated in result[k]
RECURSIVE PolyMulCoef(_, _, _, _)
PolyMulCoef(p, q, k, i) ==
  IF i >= Len(p) THEN 0
  ELSE Xor(IF k - i >= 0 /\ k - i < Len(q) THEN gfMul(At(p, i), At(q, k - i)) ELSE 0,
           PolyMulCoef(p, q, k, i + 1))

polyMul(p, q) == Array([k \in 1..(Len(p) + Len(q) - 1) |-> PolyMulCoef(p, q, k - 1, 0)])

RECURSIVE PolyEvalFrom(_, _, _, _)
PolyEvalFrom(p, x, i, result) ==
  IF i >= Len(p) THEN result
  ELSE PolyEvalFrom(p, x, i + 1, Xor(gfMul(result, x), At(p, i)))

\* p[0] of an empty array is undefined
polyEval(p, x) == IF Len(p) = 0 THEN ArrayHole ELSE PolyEvalFrom(p, x, 1, At(p, 0))

\* p.map(c => gfMul(c, k))
PolyScale(p, k) == Array([i \in 1..Len(p) |-> gfMul(p[i], k)])

(***************************************************************************)
(* Reed-Solomon encoding and syndromes (reed-solomon.ts:67-112)            *)
(***************************************************************************)

RECURSIVE GeneratorFrom(_, _, _)
GeneratorFrom(i, nsym, g) ==
  IF i >= nsym THEN g ELSE GeneratorFrom(i + 1, nsym, polyMul(g, <<1, At(gfExp, i)>>))

rsGeneratorPoly(nsym) == GeneratorFrom(0, nsym, <<1>>)

\* one round of the division loop: msgOut[i + j] ^= gfMul(gen[j], coef), j >= 1
RECURSIVE DivideFrom(_, _, _, _)
DivideFrom(i, msgLen, gen, msgOut) ==
  IF i >= msgLen THEN msgOut
  ELSE LET coef == At(msgOut, i)
           reduced ==
             IF coef # 0
             THEN Array([k \in 1..Len(msgOut) |->
                     IF k - 1 - i >= 1 /\ k - 1 - i < Len(gen)
                     THEN Xor(msgOut[k], gfMul(At(gen, k - 1 - i), coef))
                     ELSE msgOut[k]])
             ELSE msgOut
       IN DivideFrom(i + 1, msgLen, gen, reduced)

\* the arrays of rsEncode when it returns: msg is only read, msgOut is the
\* division buffer, result is [...msg] followed by the last nsym of msgOut
rsEncodeArrays(msg, nsym) ==
  LET gen == rsGeneratorPoly(nsym)
      padded == Array([k \in 1..(Len(msg) + nsym) |-> IF k <= Len(msg) THEN msg[k] ELSE 0])
      msgOut == DivideFrom(0, Len(msg), gen, padded)
  IN [msg |-> msg,
      msgOut |-> msgOut,
      result |-> msg \o Array([i \in 1..nsym |-> At(msgOut, Len(msg) + i - 1)])]

\* rsEncode returning the division buffer, whose leading symbols the
\* division has overwritten, instead of the copy of the message
rsEncodeReturnsBuffer(msg, nsym) == rsEncodeArrays(msg, nsym).msgOut

rsEncode(msg, nsym) == rsEncodeArrays(msg, nsym).result

\* rsCalcSyndromes evaluating at alpha^(i+1) instead of alpha^i
rsCalcSyndromesShifted(msg, nsym) ==
  <<0>> \o Array([i \in 1..nsym |-> polyEval(msg, At(gfExp, i))])

rsCalcSyndromes(msg, nsym) ==
  <<0>> \o Array([i \in 1..nsym |-> polyEval(msg, At(gfExp, i - 1))])

rsCheckSyndromes(synd) == \A i \in 2..Len(synd) : synd[i] = 0

(***************************************************************************)
(* Reed-Solomon decoding (reed-solomon.ts:114-214)                         *)
(***************************************************************************)

\* delta = synd[K] ^ XOR_{j = 1}^{errLoc.length - 1} errLoc[len - 1 - j] * synd[K - j]
RECURSIVE Discrepancy(_, _, _, _)
Discrepancy(errLoc, synd, K, j) ==
  IF j >= Len(errLoc) THEN At(synd, K)
  ELSE Xor(gfMul(At(errLoc, Len(errLoc) - 1 - j), At(synd, K - j)),
           Discrepancy(errLoc, synd, K, j + 1))

\* errLoc[errLoc.length - 1 - j] ^= gfMul(delta, oldLoc[oldLoc.length - 1 - j])
\* for every j < oldLoc.length
LocatorUpdate(errLoc, oldLoc, delta) ==
  Array([k \in 1..Len(errLoc) |->
     LET j == Len(errLoc) - k
     IN IF j < Len(oldLoc)
        THEN Xor(errLoc[k], gfMul(delta, At(oldLoc, Len(oldLoc) - 1 - j)))
        ELSE errLoc[k]])

\* the Berlekamp-Massey loop, from iteration i on
RECURSIVE BerlekampMassey(_, _, _, _, _)
BerlekampMassey(i, nsym, synd, errLoc, oldLoc) ==
  IF i >= nsym THEN errLoc
  ELSE LET K == i + 1
           delta == Discrepancy(errLoc, synd, K, 1)
           oldLoc1 == Append(oldLoc, 0)
           swap == Len(oldLoc1) > Len(errLoc)
           errLoc1 == IF swap THEN PolyScale(oldLoc1, delta) ELSE errLoc
           oldLoc2 == IF swap THEN PolyScale(errLoc, gfInverse(delta)) ELSE oldLoc1
       IN IF delta # 0
          THEN BerlekampMassey(i + 1, nsym, synd,
                               LocatorUpdate(errLoc1, oldLoc2, delta), oldLoc2)
          ELSE BerlekampMassey(i + 1, nsym, synd, errLoc, oldLoc1)

\* while (errLoc.length > 0 && errLoc[0] === 0) errLoc.shift()
RECURSIVE StripLeadingZeros(_)
StripLeadingZeros(p) ==
  IF Len(p) > 0 /\ p[1] = 0 THEN StripLeadingZeros(Tail(p)) ELSE p

\* rsFindErrorLocator accepting one error more than the parity can correct
rsFindErrorLocatorLax(synd, nsym) ==
  LET errLoc == StripLeadingZeros(BerlekampMassey(0, nsym, synd, <<1>>, <<1>>))
      errs == Len(errLoc) - 1
  IN IF errs * 2 > nsym + 2 THEN Throw("Too many errors to correct") ELSE Return(errLoc)

rsFindErrorLocator(synd, nsym) ==
  LET errLoc == StripLeadingZeros(BerlekampMassey(0, nsym, synd, <<1>>, <<1>>))
      errs == Len(errLoc) - 1
  IN IF errs * 2 > nsym THEN Throw("Too many errors to correct") ELSE Return(errLoc)

\* the Chien search loop, from i on: the positions pushed to errPos, in order
RECURSIVE ChienFrom(_, _, _)
ChienFrom(i, errLoc, msgLen) ==
  IF i >= msgLen THEN <<>>
  ELSE (IF polyEval(errLoc, At(gfExp, 255 - i)) = 0 THEN <<msgLen - 1 - i>> ELSE <<>>)
       \o ChienFrom(i + 1, errLoc, msgLen)

\* rsFindErrors reporting the loop index i instead of the position msgLen - 1 - i
rsFindErrorsUnmirrored(errLoc, msgLen) ==
  LET errs == Len(errLoc) - 1
      errPos == ChienFrom(0, errLoc, msgLen)
  IN IF Len(errPos) # errs
     THEN Throw("Could not find error positions")
     ELSE Return(Array([k \in 1..Len(errPos) |-> msgLen - 1 - errPos[k]]))

rsFindErrors(errLoc, msgLen) ==
  LET errs == Len(errLoc) - 1
      errPos == ChienFrom(0, errLoc, msgLen)
  IN IF Len(errPos) # errs THEN Throw("Could not find error positions") ELSE Return(errPos)

\* errLocPrime = product over j # i of (1 ^ gfMul(XiInv, Xj)), from j on
RECURSIVE LocatorPrime(_, _, _, _, _)
LocatorPrime(i, j, XiInv, errPos, msgLen) ==
  IF j >= Len(errPos) THEN 1
  ELSE LET rest == LocatorPrime(i, j + 1, XiInv, errPos, msgLen)
       IN IF j # i
          THEN gfMul(Xor(1, gfMul(XiInv, At(gfExp, msgLen - 1 - At(errPos, j)))), rest)
          ELSE rest

\* the Forney loop, from i on, writing into errMag
RECURSIVE ForneyFrom(_, _, _, _, _)
ForneyFrom(i, omega, errPos, msgLen, errMag) ==
  IF i >= Len(errPos) THEN errMag
  ELSE LET Xi == At(gfExp, msgLen - 1 - At(errPos, i))
           XiInv == gfInverse(Xi)
           omegaVal == polyEval(omega, XiInv)
           errLocPrime == LocatorPrime(i, 0, XiInv, errPos, msgLen)
       IN IF errLocPrime = 0
          THEN ForneyFrom(i + 1, omega, errPos, msgLen, errMag)
          ELSE ForneyFrom(i + 1, omega, errPos, msgLen,
                          [errMag EXCEPT ![At(errPos, i) + 1] = gfDiv(omegaVal, errLocPrime).value])

rsFindErrorMagnitudes(synd, errLoc, errPos, msgLen) ==
  LET nsym == Len(synd) - 1
      syndPoly == Array([k \in 1..nsym |-> At(synd, nsym - k + 1)])
      product == polyMul(syndPoly, errLoc)
      omega == IF Len(product) > nsym
               THEN SubSeq(product, Len(product) - nsym + 1, Len(product))
               ELSE product
  IN ForneyFrom(0, omega, errPos, msgLen, Array([k \in 1..msgLen |-> 0]))

\* corrected[pos] ^= errMag[pos] for every pos of errPos
ApplyMagnitudes(recv, errPos, errMag) ==
  Array([k \in 1..Len(recv) |->
     IF \E e \in 1..Len(errPos) : errPos[e] = k - 1 THEN Xor(recv[k], errMag[k]) ELSE recv[k]])

(***************************************************************************)
(* The component's computed chain (reed-solomon.ts:248-363)                *)
(***************************************************************************)

\* ReedSolomon.encoded: no codeword for the empty message
RsEncodedSignal(msg, nsym) == IF Len(msg) = 0 THEN <<>> ELSE rsEncode(msg, nsym)

\* ReedSolomon.syndromes
RsSyndromes(recv, nsym) == IF Len(recv) = 0 THEN <<>> ELSE rsCalcSyndromes(recv, nsym)

\* the catch block of correctionResult handing back an empty word, as the
\* "no data" branch does, instead of recv
RsFailureClearsWord(recv, message) ==
  [success |-> FALSE, corrected |-> <<>>, errorPositions |-> <<>>,
   errorMagnitudes |-> <<>>, message |-> message]

RsFailure(recv, message) ==
  [success |-> FALSE, corrected |-> recv, errorPositions |-> <<>>,
   errorMagnitudes |-> <<>>, message |-> message]

\* ReedSolomon.correctionResult, without the display steps
correctionResult(recv, nsym) ==
  LET synd == RsSyndromes(recv, nsym)
  IN IF Len(recv) = 0
     THEN [success |-> FALSE, corrected |-> <<>>, errorPositions |-> <<>>,
           errorMagnitudes |-> <<>>, message |-> "no data"]
     ELSE IF rsCheckSyndromes(synd)
     THEN [success |-> TRUE, corrected |-> recv, errorPositions |-> <<>>,
           errorMagnitudes |-> <<>>, message |-> "no errors detected"]
     ELSE LET errLoc == rsFindErrorLocator(synd, nsym)
          IN IF errLoc.threw THEN RsFailure(recv, errLoc.error)
             ELSE LET errPos == rsFindErrors(errLoc.value, Len(recv))
                  IN IF errPos.threw THEN RsFailure(recv, errPos.error)
                     ELSE LET errMag == rsFindErrorMagnitudes(synd, errLoc.value,
                                                              errPos.value, Len(recv))
                          IN [success |-> TRUE,
                              corrected |-> ApplyMagnitudes(recv, errPos.value, errMag),
                              errorPositions |-> errPos.value,
                              errorMagnitudes |-> errMag,
                              message |-> "errors corrected"]

(***************************************************************************)
(* Reed-Solomon harness: a message is encoded, symbols of the codeword are *)
(* corrupted on the channel, the received word is decoded.                 *)
(***************************************************************************)

MaxMsgLen == 2
MaxNsym == 4
MaxRsErrors == 2

\* message symbols: 0, which the encoder's division skips, and 'H' of the
\* default message
RsBytes == {0, 72}
\* what the channel XORs onto a symbol: the injector's 0xFF, two small
\* values whose combination the decoder can mistake for a single error, and
\* 2, which next to 1 cancels in the second syndrome but not in the first
RsErrorBytes == {1, 2, 3, 255}

RsMessages == UNION {[1..k -> RsBytes] : k \in 0..MaxMsgLen}

\* rsResult before the decoder has run
RsNoResult ==
  [success |-> FALSE, corrected |-> <<>>, errorPositions |-> <<>>,
   errorMagnitudes |-> <<>>, message |-> "not decoded"]

RsIdle ==
  /\ rsMsg = <<>>
  /\ rsNsym = 4
  /\ rsPc = "input"
  /\ rsMsgAfter = <<>>
  /\ rsEncoded = <<>>
  /\ rsReceived = <<>>
  /\ rsErrCount = 0
  /\ rsResult = RsNoResult
  /\ nSymbols = 4
  /\ messageInput = <<72, 101, 108, 108, 111, 33>>
  /\ rsErrorPositions = {}

RsInit ==
  /\ rsMsg \in RsMessages
  /\ rsNsym \in 0..MaxNsym
  /\ rsPc = "input"
  /\ rsMsgAfter = <<>>
  /\ rsEncoded = <<>>
  /\ rsReceived = <<>>
  /\ rsErrCount = 0
  /\ rsResult = RsNoResult
  /\ nSymbols = 4
  /\ messageInput = <<72, 101, 108, 108, 111, 33>>
  /\ rsErrorPositions = {}

\* rsEncode(msg, nsym)
RsEncodeStep ==
  /\ rsPc = "input"
  /\ rsPc' = "encoded"
  /\ rsEncoded' = rsEncode(rsMsg, rsNsym)
  /\ rsMsgAfter' = rsEncodeArrays(rsMsg, rsNsym).msg
  /\ UNCHANGED <<rsMsg, rsNsym, rsReceived, rsErrCount, rsResult>>
  /\ UNCHANGED <<nSymbols, messageInput, rsErrorPositions>>
  /\ UNCHANGED <<hammingVars, wordVars, gfVars, polarVars, ldpcVars>>

\* ReedSolomon.received, with any non-zero byte XORed onto the chosen positions
RsCorrupt(enc, errors) ==
  Array([k \in 1..Len(enc) |->
     IF k - 1 \in DOMAIN errors THEN Xor(enc[k], errors[k - 1]) % 256 ELSE enc[k]])

RsErrorPatterns(len) ==
  UNION {[P -> RsErrorBytes] :
           P \in {Q \in SUBSET (0..(len - 1)) : Cardinality(Q) <= MaxRsErrors}}

RsTransmit ==
  /\ rsPc = "encoded"
  /\ rsPc' = "received"
  /\ \E errors \in RsErrorPatterns(Len(RsEncodedSignal(rsMsg, rsNsym))) :
       /\ rsReceived' = RsCorrupt(RsEncodedSignal(rsMsg, rsNsym), errors)
       /\ rsErrCount' = Cardinality(DOMAIN errors)
  /\ UNCHANGED <<rsMsg, rsNsym, rsMsgAfter, rsEncoded, rsResult>>
  /\ UNCHANGED <<nSymbols, messageInput, rsErrorPositions>>
  /\ UNCHANGED <<hammingVars, wordVars, gfVars, polarVars, ldpcVars>>

RsDecodeStep ==
  /\ rsPc = "received"
  /\ rsPc' = "decoded"
  /\ rsResult' = correctionResult(rsReceived, rsNsym)
  /\ UNCHANGED <<rsMsg, rsNsym, rsMsgAfter, rsEncoded, rsReceived, rsErrCount>>
  /\ UNCHANGED <<nSymbols, messageInput, rsErrorPositions>>
  /\ UNCHANGED <<hammingVars, wordVars, gfVars, polarVars, ldpcVars>>

RsNext ==
  \/ RsEncodeStep
  \/ RsTransmit
  \/ RsDecodeStep

(***************************************************************************)
(* Reed-Solomon component: the signals nSymbols, messageInput (a string,   *)
(* held as its char codes; 'Hello!' after construction) and                *)
(* errorPositions, with the handlers that write them.                      *)
(***************************************************************************)

\* ReedSolomon.maxErrors
maxErrors == nSymbols \div 2

\* toggleError adding a position whatever the size of the set
RsToggleErrorUnlimited(pos) ==
  /\ rsErrorPositions' = IF pos \in rsErrorPositions THEN rsErrorPositions \ {pos}
                         ELSE rsErrorPositions \cup {pos}
  /\ UNCHANGED <<nSymbols, messageInput>>
  /\ UNCHANGED <<rsMsg, rsNsym, rsPc, rsMsgAfter, rsEncoded, rsReceived, rsErrCount, rsResult>>
  /\ UNCHANGED <<hammingVars, wordVars, gfVars, polarVars, ldpcVars>>

\* ReedSolomon.toggleError(pos)
RsToggleError(pos) ==
  /\ rsErrorPositions' = IF pos \in rsErrorPositions THEN rsErrorPositions \ {pos}
                         ELSE IF Cardinality(rsErrorPositions) < maxErrors
                         THEN rsErrorPositions \cup {pos}
                         ELSE rsErrorPositions
  /\ UNCHANGED <<nSymbols, messageInput>>
  /\ UNCHANGED <<rsMsg, rsNsym, rsPc, rsMsgAfter, rsEncoded, rsReceived, rsErrCount, rsResult>>
  /\ UNCHANGED <<hammingVars, wordVars, gfVars, polarVars, ldpcVars>>

\* ReedSolomon.clearErrors()
RsClearErrors ==
  /\ rsErrorPositions' = {}
  /\ UNCHANGED <<nSymbols, messageInput>>
  /\ UNCHANGED <<rsMsg, rsNsym, rsPc, rsMsgAfter, rsEncoded, rsReceived, rsErrCount, rsResult>>
  /\ UNCHANGED <<hammingVars, wordVars, gfVars, polarVars, ldpcVars>>

\* ReedSolomon.randomErrors(): nothing without a codeword; otherwise
\* Math.floor(Math.random() * max) is 0 for max = 0 and any of 0..max-1 else,
\* and the loop ends with `count` distinct positions of the codeword
RsRandomErrors ==
  /\ LET enc == RsEncodedSignal(Array([k \in 1..Len(messageInput) |-> messageInput[k] % 256]),
                                nSymbols)
         max == maxErrors
         draws == IF max = 0 THEN {0} ELSE 0..(max - 1)
     IN IF Len(enc) = 0 THEN UNCHANGED rsErrorPositions
        ELSE \E r \in draws :
               \E positions \in SUBSET (0..(Len(enc) - 1)) :
                  /\ Cardinality(positions) = Min(max, IF r + 1 > 1 THEN r + 1 ELSE 1)
                  /\ rsErrorPositions' = positions
  /\ UNCHANGED <<nSymbols, messageInput>>
  /\ UNCHANGED <<rsMsg, rsNsym, rsPc, rsMsgAfter, rsEncoded, rsReceived, rsErrCount, rsResult>>
  /\ UNCHANGED <<hammingVars, wordVars, gfVars, polarVars, ldpcVars>>

\* ReedSolomon.setNSymbols(n)
setNSymbols(n) ==
  /\ nSymbols' = n
  /\ rsErrorPositions' = {}
  /\ UNCHANGED messageInput
  /\ UNCHANGED <<rsMsg, rsNsym, rsPc, rsMsgAfter, rsEncoded, rsReceived, rsErrCount, rsResult>>
  /\ UNCHANGED <<hammingVars, wordVars, gfVars, polarVars, ldpcVars>>

\* ReedSolomon.onMessageInput(event), value being the text of the input
onMessageInput(value) ==
  /\ messageInput' = value
  /\ rsErrorPositions' = {}
  /\ UNCHANGED nSymbols
  /\ UNCHANGED <<rsMsg, rsNsym, rsPc, rsMsgAfter, rsEncoded, rsReceived, rsErrCount, rsResult>>
  /\ UNCHANGED <<hammingVars, wordVars, gfVars, polarVars, ldpcVars>>

\* the page offers toggleError on the symbols of the codeword; the texts
\* typed are '', 'H', 'Hi', a Cyrillic letter above 0xFF and 'Hello!'
RsPageNext ==
  \/ \E pos \in 0..(Len(messageInput) + nSymbols - 1) : RsToggleError(pos)
  \/ RsClearErrors
  \/ RsRandomErrors
  \/ \E n \in 0..MaxNsym : setNSymbols(n)
  \/ \E value \in {<<>>, <<72>>, <<72, 105>>, <<1025>>, <<72, 101, 108, 108, 111, 33>>} :
       onMessageInput(value)

\* ReedSolomon.decodedMessage, as bytes
RsDecodedMessage(result, msgLen) == SubSeq(result.corrected, 1, msgLen)

(***************************************************************************)
(* Polar codec (polar.ts)                                                  *)
(*                                                                         *)
(* An erasure probability is the fraction num / den.  The Bhattacharyya    *)
(* parameters of n channels are held as numerators over den^n; for the     *)
(* dyadic probabilities used here the source's floating-point arithmetic   *)
(* is exact, so the numerators compare as the source's numbers do.         *)
(***************************************************************************)

MaxLogN == 3
MaxPolarErrors == 1

RECURSIVE Pow(_, _)
Pow(b, e) == IF e = 0 THEN 1 ELSE b * Pow(b, e - 1)

\* Math.log2(N) of a power of two
RECURSIVE Log2(_)
Log2(n) == IF n <= 1 THEN 0 ELSE 1 + Log2(n \div 2)

kronecker(a, b) ==
  LET am == Len(a)
      an == Len(a[1])
      bm == Len(b)
      bn == Len(b[1])
  IN Array([i \in 1..(am * bm) |->
       Array([j \in 1..(an * bn) |->
         a[((i - 1) \div bm) + 1][((j - 1) \div bn) + 1]
           * b[((i - 1) % bm) + 1][((j - 1) % bn) + 1]])])

\* for (i = 1; i < n; i++) G = kronecker(G, F), from i on
RECURSIVE KroneckerFrom(_, _, _, _)
KroneckerFrom(i, n, G, F) ==
  IF i >= n THEN G ELSE KroneckerFrom(i + 1, n, kronecker(G, F), F)

\* generateG(0) and generateG(1) are both F itself
generateG(n) ==
  LET F == <<<<1, 0>>, <<1, 1>>>>
      G == KroneckerFrom(1, n, F, F)
  IN Array([i \in 1..Len(G) |-> Array([j \in 1..Len(G[i]) |-> G[i][j] % 2])])

\* numerators over eps.den^n; W- is min(2z - z^2, 1), W+ is z^2
RECURSIVE bhattacharyya(_, _)
bhattacharyya(n, eps) ==
  IF n = 1 THEN <<eps.num>>
  ELSE LET half == bhattacharyya(n \div 2, eps)
           one == Pow(eps.den, n \div 2)
       IN Array([k \in 1..(2 * Len(half)) |->
            LET z == half[(k + 1) \div 2]
            IN IF k % 2 = 1 THEN Min((2 * z * one) - (z * z), one * one) ELSE z * z])

\* the place of channel i if the sort were by descending parameter
SortedPlaceDescending(params, i) ==
  Cardinality({j \in 1..Len(params) :
                 params[j] > params[i] \/ (params[j] = params[i] /\ j < i)})

\* the place of channel i after the stable sort by ascending parameter
SortedPlace(params, i) ==
  Cardinality({j \in 1..Len(params) :
                 params[j] < params[i] \/ (params[j] = params[i] /\ j < i)})

\* Polar.channels: the K channels sorted first are info, the rest frozen
PolarChannels(params, K) ==
  Array([i \in 1..Len(params) |->
    [index |-> i - 1,
     bhattacharyya |-> params[i],
     type |-> IF SortedPlace(params, i) < K THEN "info" ELSE "frozen"]])

\* array.sort((a, b) => a - b)
RECURSIVE SortAscending(_)
SortAscending(s) ==
  IF Len(s) = 0 THEN <<>>
  ELSE LET least == CHOOSE k \in 1..Len(s) :
                      /\ \A l \in 1..Len(s) : s[k] <= s[l]
                      /\ \A l \in 1..(k - 1) : s[l] # s[k]
       IN <<s[least]>> \o SortAscending(SubSeq(s, 1, least - 1) \o SubSeq(s, least + 1, Len(s)))

\* Polar.frozenBits: the set of the indices of the frozen channels
PolarFrozenBits(chans) == {chans[k].index : k \in {l \in 1..Len(chans) : chans[l].type = "frozen"}}

\* Polar.infoBitIndices: filter, map to the index, sort
PolarInfoBitIndices(chans) ==
  LET info == SelectSeq(chans, LAMBDA c : c.type = "info")
  IN SortAscending(Array([k \in 1..Len(info) |-> info[k].index]))

\* Polar.inputVector: data[i] goes to u[infoIndices[i]] while both arrays last
PolarInputVector(N, infoIndices, data) ==
  LET count == Min(Len(infoIndices), Len(data))
  IN Array([k \in 1..N |->
       IF \E i \in 1..count : infoIndices[i] = k - 1
       THEN data[CHOOSE i \in 1..count :
                   /\ infoIndices[i] = k - 1
                   /\ \A l \in (i + 1)..count : infoIndices[l] # k - 1]
       ELSE 0])

\* sum += u[i] * G[i][j], from i on
RECURSIVE ColumnSum(_, _, _, _, _)
ColumnSum(u, G, j, i, N) ==
  IF i >= N THEN 0 ELSE (At(u, i) * At(At(G, i), j)) + ColumnSum(u, G, j, i + 1, N)

\* Polar.encoded: x = u * G_N (mod 2)
PolarEncoded(u, G, N) == Array([k \in 1..N |-> ColumnSum(u, G, k - 1, 0, N) % 2])

\* Polar.received
PolarReceived(x, errors) ==
  Array([k \in 1..Len(x) |-> IF (k - 1) \in errors THEN 1 - x[k] ELSE x[k]])

\* f and g of scDecode
\* f keeping the smaller magnitude and dropping the sign of the second LLR
ScFSignOfFirst(a, b) ==
  (IF a >= 0 THEN 1 ELSE -1) * Min(Abs(a), Abs(b))

ScF(a, b) ==
  ((IF a >= 0 THEN 1 ELSE -1) * (IF b >= 0 THEN 1 ELSE -1)) * Min(Abs(a), Abs(b))

\* g combining the two LLRs without the partial sum u of the upper half
ScGIgnoresPartialSum(a, b, u) == b + a

ScG(a, b, u) == b + ((1 - (2 * u)) * a)

\* the butterfly of decode() with the two halves of the output exchanged
ScCombineSwapped(upperEnc, lowerEnc, size) ==
  Array([i \in 1..size |->
    IF i <= size \div 2 THEN lowerEnc[i]
    ELSE Xor(upperEnc[i - (size \div 2)], lowerEnc[i - (size \div 2)])])

\* combined[i] = upperEnc[i] ^ lowerEnc[i]; combined[half + i] = lowerEnc[i]
ScCombine(upperEnc, lowerEnc, size) ==
  Array([i \in 1..size |->
    IF i <= size \div 2 THEN Xor(upperEnc[i], lowerEnc[i]) ELSE lowerEnc[i - (size \div 2)]])

\* decode(llr, offset, size) of scDecode; `decoded` is the array the closure
\* writes into, returned with the partial sums; `calls` records what this
\* call and the calls below it returned
RECURSIVE ScDecodeNode(_, _, _, _, _)
ScDecodeNode(llr, offset, size, frozen, decoded) ==
  IF size = 1
  THEN LET bit == IF offset \in frozen THEN 0 ELSE IF llr[1] < 0 THEN 1 ELSE 0
       IN [decoded |-> [decoded EXCEPT ![offset + 1] = bit], enc |-> <<bit>>,
           calls |-> {[offset |-> offset, size |-> 1, enc |-> <<bit>>]}]
  ELSE LET half == size \div 2
           fLlr == Array([i \in 1..half |-> ScF(llr[i], llr[half + i])])
           upper == ScDecodeNode(fLlr, offset, half, frozen, decoded)
           upperEnc == upper.enc
           gLlr == Array([i \in 1..half |-> ScG(llr[i], llr[half + i], upperEnc[i])])
           lower == ScDecodeNode(gLlr, offset + half, half, frozen, upper.decoded)
           combined == ScCombine(upperEnc, lower.enc, size)
       IN [decoded |-> lower.decoded,
           enc |-> combined,
           calls |-> upper.calls \cup lower.calls
                       \cup {[offset |-> offset, size |-> size, enc |-> combined]}]

scDecode(recv, frozen, N) ==
  LET reliability == 2
      initialLlr == Array([k \in 1..Len(recv) |-> IF recv[k] = 0 THEN reliability ELSE -reliability])
  IN ScDecodeNode(initialLlr, 0, N, frozen, Array([k \in 1..N |-> 0])).decoded

\* the values decode() returned during scDecode, one per call
scDecodeCalls(recv, frozen, N) ==
  LET reliability == 2
      initialLlr == Array([k \in 1..Len(recv) |-> IF recv[k] = 0 THEN reliability ELSE -reliability])
  IN ScDecodeNode(initialLlr, 0, N, frozen, Array([k \in 1..N |-> 0])).calls

\* the computed signals of the Polar component in the current state
logN == Log2(polarN)
bhattacharyyaParams == bhattacharyya(polarN, erasureProb)
polarChannels == PolarChannels(bhattacharyyaParams, polarK)
frozenBits == PolarFrozenBits(polarChannels)
infoBitIndices == PolarInfoBitIndices(polarChannels)
generatorMatrix == generateG(logN)
inputVector == PolarInputVector(polarN, infoBitIndices, infoBits)
polarEncoded == PolarEncoded(inputVector, generatorMatrix, polarN)
polarReceived == PolarReceived(polarEncoded, polarErrors)
polarDecoded == scDecode(polarReceived, frozenBits, polarN)
decodedInfoBits ==
  LET dec == polarDecoded
      indices == infoBitIndices
  IN Array([k \in 1..Len(indices) |-> At(dec, indices[k])])
decodingSuccess ==
  LET original == infoBits
      decoded == decodedInfoBits
  IN \A i \in 1..Len(original) :
       original[i] = (IF i <= Len(decoded) THEN decoded[i] ELSE 0)

\* the state after construction
PolarIdle ==
  /\ polarN = 8
  /\ polarK = 4
  /\ erasureProb = [num |-> 1, den |-> 2]
  /\ infoBits = <<1, 0, 1, 1>>
  /\ polarErrors = {}

\* block lengths 1, 2, ..., 2^MaxLogN
PolarLengths == {Pow(2, k) : k \in 0..MaxLogN}

\* erasure probabilities 0.25, 0.5 (the default) and 1 (every channel equally bad)
ErasureProbs == {[num |-> 1, den |-> 4], [num |-> 1, den |-> 2], [num |-> 2, den |-> 2]}

\* N, K and the erasure probability are set from the page; the message has
\* K bits
PolarInit ==
  /\ polarN \in PolarLengths
  /\ polarK \in 0..(2 ^ MaxLogN)
  /\ polarK <= polarN
  /\ erasureProb \in ErasureProbs
  /\ infoBits \in [1..polarK -> Bits]
  /\ polarErrors = {}

toggleInfoBit(idx) ==
  /\ idx < Len(infoBits)
  /\ infoBits' = [infoBits EXCEPT ![idx + 1] = 1 - @]
  /\ polarErrors' = {}
  /\ UNCHANGED <<polarN, polarK, erasureProb>>
  /\ UNCHANGED <<hammingVars, wordVars, gfVars, rsVars, ldpcVars>>

\* Math.round(Math.random()) is 0 or 1, K times
randomInfoBits ==
  /\ \E bits \in [1..polarK -> Bits] : infoBits' = bits
  /\ polarErrors' = {}
  /\ UNCHANGED <<polarN, polarK, erasureProb>>
  /\ UNCHANGED <<hammingVars, wordVars, gfVars, rsVars, ldpcVars>>

\* Polar.toggleError(pos); the model injects at most MaxPolarErrors errors
PolarToggleError(pos) ==
  /\ polarErrors' = IF pos \in polarErrors THEN polarErrors \ {pos} ELSE polarErrors \cup {pos}
  /\ Cardinality(polarErrors') <= MaxPolarErrors
  /\ UNCHANGED <<polarN, polarK, erasureProb, infoBits>>
  /\ UNCHANGED <<hammingVars, wordVars, gfVars, rsVars, ldpcVars>>

\* Polar.clearErrors()
PolarClearErrors ==
  /\ polarErrors' = {}
  /\ UNCHANGED <<polarN, polarK, erasureProb, infoBits>>
  /\ UNCHANGED <<hammingVars, wordVars, gfVars, rsVars, ldpcVars>>

\* Polar.randomError(): Math.floor(Math.random() * N) is any position
PolarRandomError ==
  /\ \E pos \in 0..(polarN - 1) : polarErrors' = {pos}
  /\ UNCHANGED <<polarN, polarK, erasureProb, infoBits>>
  /\ UNCHANGED <<hammingVars, wordVars, gfVars, rsVars, ldpcVars>>

\* the K signal is written by the page; the message keeps the bits it has
setK(k) ==
  /\ polarK' = k
  /\ UNCHANGED <<polarN, erasureProb, infoBits, polarErrors>>
  /\ UNCHANGED <<hammingVars, wordVars, gfVars, rsVars, ldpcVars>>

\* Polar.toggleError(pos) with no limit on the number of positions
PolarToggleAnyError(pos) ==
  /\ polarErrors' = IF pos \in polarErrors THEN polarErrors \ {pos} ELSE polarErrors \cup {pos}
  /\ UNCHANGED <<polarN, polarK, erasureProb, infoBits>>
  /\ UNCHANGED <<hammingVars, wordVars, gfVars, rsVars, ldpcVars>>

PolarNext ==
  \/ \E idx \in 0..(polarK - 1) : toggleInfoBit(idx)
  \/ randomInfoBits
  \/ \E pos \in 0..(polarN - 1) : PolarToggleError(pos)
  \/ PolarClearErrors
  \/ PolarRandomError

(***************************************************************************)
(* LDPC decoder (ldpc.ts)                                                  *)
(***************************************************************************)

\* An LLR is held as an integer: the channel LLR of a received 0,
\* llr0 = ln((1 - p) / p), is positive for the flip probability p = 0.15 and
\* is the unit; after t iterations of damping by 0.9 = 9/10 every message is
\* a multiple of llr0 / 10^t, and the integer is that multiple.

MaxLdpcErrors == 1
MaxBpSteps == 6

DEFAULT_H ==
  <<<<0, 1, 1, 1, 0, 1, 0, 1>>,
    <<0, 1, 1, 0, 1, 0, 1, 1>>,
    <<1, 0, 0, 1, 0, 1, 1, 1>>,
    <<1, 0, 1, 1, 1, 0, 1, 0>>>>

\* Ldpc.codeword: the all-zero word, never written
ldpcCodeword == <<0, 0, 0, 0, 0, 0, 0, 0>>

numCheckNodes(h) == Len(h)
numVarNodes(h) == IF Len(h) = 0 THEN 0 ELSE Len(h[1])

\* Ldpc.received
LdpcReceived(cw, errors) ==
  Array([k \in 1..Len(cw) |-> IF (k - 1) \in errors THEN 1 - cw[k] ELSE cw[k]])

\* Ldpc.channelLLR in units of llr0 / scale
channelLLR(r, scale) == Array([k \in 1..Len(r) |-> IF r[k] = 0 THEN scale ELSE 0 - scale])

\* varToCheck[i][j] = h[i][j] === 1 ? channelLlr[j] : 0
InitVarToCheck(h, llr) ==
  Array([i \in 1..numCheckNodes(h) |->
    Array([j \in 1..numVarNodes(h) |-> IF h[i][j] = 1 THEN llr[j] ELSE 0])])

\* The messages are numbers of the source language: next to the finite
\* ones (integers, in units of llr0 / 10^t) there are Infinity, -Infinity
\* and NaN.  Infinity stands above every finite message of the runs
\* followed, NaN is a value apart.
Infinity == 2000000000
NaN == 2000000001

\* a + b
FloatAdd(a, b) ==
  IF a = NaN \/ b = NaN THEN NaN
  ELSE IF Abs(a) = Infinity THEN (IF b = 0 - a THEN NaN ELSE a)
  ELSE IF Abs(b) = Infinity THEN b
  ELSE a + b

\* the min-sum message with minAbs starting from -Infinity, which Math.min
\* never leaves
MinSumFromMinusInfinity(h, v2c, i, j) ==
  LET others == {jj \in 1..numVarNodes(h) : jj # j /\ h[i][jj] # 0}
      negatives == Cardinality({jj \in others : v2c[i][jj] = NaN \/ v2c[i][jj] < 0})
      sign == IF negatives % 2 = 0 THEN 1 ELSE -1
  IN IF \E jj \in others : v2c[i][jj] = NaN THEN NaN ELSE sign * (0 - Infinity)

\* the min-sum message of check i to variable j, in the next finer unit:
\* sign * minAbs * 0.9.  `msg >= 0` is false of NaN, Math.min returns NaN
\* once a message is NaN, and minAbs stays Infinity when check i has no
\* other variable.
MinSum(h, v2c, i, j) ==
  LET others == {jj \in 1..numVarNodes(h) : jj # j /\ h[i][jj] # 0}
      negatives == Cardinality({jj \in others : v2c[i][jj] = NaN \/ v2c[i][jj] < 0})
      sign == IF negatives % 2 = 0 THEN 1 ELSE -1
      minAbs == IF \E jj \in others : v2c[i][jj] = NaN THEN NaN
                ELSE IF others = {} THEN Infinity
                ELSE CHOOSE a \in {Abs(v2c[i][jj]) : jj \in others} :
                       \A jj \in others : a <= Abs(v2c[i][jj])
  IN IF minAbs = NaN THEN NaN
     ELSE IF minAbs = Infinity THEN sign * Infinity
     ELSE sign * minAbs * 9

\* the check-to-variable messages without the 0.9 scaling
CheckToVarUndamped(h, v2c) ==
  Array([i \in 1..numCheckNodes(h) |->
    Array([j \in 1..numVarNodes(h) |->
      IF h[i][j] = 0 THEN 0 ELSE (MinSum(h, v2c, i, j) \div 9) * 10])])

CheckToVar(h, v2c) ==
  Array([i \in 1..numCheckNodes(h) |->
    Array([j \in 1..numVarNodes(h) |-> IF h[i][j] = 0 THEN 0 ELSE MinSum(h, v2c, i, j)])])

\* totalLlr += checkToVar[i][j] over the checks i of variable j, from i on
RECURSIVE ColumnMessages(_, _, _, _)
ColumnMessages(h, c2v, j, i) ==
  IF i > numCheckNodes(h) THEN 0
  ELSE FloatAdd(IF h[i][j] = 1 THEN c2v[i][j] ELSE 0, ColumnMessages(h, c2v, j, i + 1))

Beliefs(h, llr, c2v) ==
  Array([j \in 1..numVarNodes(h) |-> FloatAdd(llr[j], ColumnMessages(h, c2v, j, 1))])

NewVarToCheck(h, beliefs, c2v) ==
  Array([i \in 1..numCheckNodes(h) |->
    Array([j \in 1..numVarNodes(h) |->
      IF h[i][j] = 0 THEN 0
      ELSE FloatAdd(beliefs[j], IF c2v[i][j] = NaN THEN NaN ELSE 0 - c2v[i][j])])])

\* b < 0 ? 1 : 0, and NaN < 0 is false
HardDecision(beliefs) ==
  Array([j \in 1..Len(beliefs) |-> IF beliefs[j] # NaN /\ beliefs[j] < 0 THEN 1 ELSE 0])

\* s ^= decoded[j] over the ones of row i, from j on
RECURSIVE RowParity(_, _, _, _)
RowParity(h, decoded, i, j) ==
  IF j > numVarNodes(h) THEN 0
  ELSE Xor(IF h[i][j] = 1 THEN decoded[j] ELSE 0, RowParity(h, decoded, i, j + 1))

SyndromeOk(h, decoded) == \A i \in 1..numCheckNodes(h) : RowParity(h, decoded, i, 1) = 0

\* one pass of the loop body of bpIterations; v2c is in units of
\* llr0 / 10^(iter - 1), the record in units of llr0 / 10^iter
BpIteration(h, r, v2c, iter) ==
  LET scale == Pow(10, iter)
      llr == channelLLR(r, scale)
      checkToVar == CheckToVar(h, v2c)
      beliefs == Beliefs(h, llr, checkToVar)
      decoded == HardDecision(beliefs)
  IN [iteration |-> iter,
      scale |-> scale,
      checkToVar |-> checkToVar,
      varToCheck |-> NewVarToCheck(h, beliefs, checkToVar),
      beliefs |-> beliefs,
      decoded |-> decoded,
      syndromeOk |-> SyndromeOk(h, decoded)]

\* finalResult handing back the received word when the run did not converge
FinalResultKeepsReceived(iters, r, maxIter) ==
  IF Len(iters) = 0
  THEN [decoded |-> r, converged |-> FALSE, iterations |-> 0, maxIter |-> maxIter]
  ELSE [decoded |-> IF iters[Len(iters)].syndromeOk THEN iters[Len(iters)].decoded ELSE r,
        converged |-> iters[Len(iters)].syndromeOk,
        iterations |-> Len(iters),
        maxIter |-> maxIter]

\* Ldpc.finalResult
FinalResult(iters, r, maxIter) ==
  IF Len(iters) = 0
  THEN [decoded |-> r, converged |-> FALSE, iterations |-> 0, maxIter |-> maxIter]
  ELSE [decoded |-> iters[Len(iters)].decoded,
        converged |-> iters[Len(iters)].syndromeOk,
        iterations |-> Len(iters),
        maxIter |-> maxIter]

ldpcReceived == LdpcReceived(ldpcCodeword, ldpcErrors)
finalResult == FinalResult(iterations, ldpcReceived, maxIterations)

\* bpIterations is recomputed when a signal it reads is written: the loop
\* starts from the channel LLRs with no iteration recorded
BpStarts(h, errors, maxIter) ==
  /\ bpPc' = IF maxIter > 0 THEN "running" ELSE "done"
  /\ varToCheck' = InitVarToCheck(h, channelLLR(LdpcReceived(ldpcCodeword, errors), 1))
  /\ iterations' = <<>>

\* the state after construction, before the first evaluation of bpIterations
LdpcIdle ==
  /\ hMatrix = DEFAULT_H
  /\ ldpcErrors = {}
  /\ maxIterations = 50
  /\ activeIteration = 0
  /\ bpPc = "running"
  /\ varToCheck = InitVarToCheck(DEFAULT_H, channelLLR(ldpcCodeword, 1))
  /\ iterations = <<>>

\* the loop of bpIterations without `if (syndromeOk) break`
BpIterateWithoutBreak ==
  /\ bpPc = "running"
  /\ Len(iterations) < maxIterations
  /\ Len(iterations) < MaxBpSteps
  /\ LET step == BpIteration(hMatrix, ldpcReceived, varToCheck, Len(iterations) + 1)
     IN /\ iterations' = Append(iterations, step)
        /\ varToCheck' = step.varToCheck
        /\ bpPc' = IF step.iteration >= maxIterations THEN "done" ELSE "running"
  /\ UNCHANGED <<hMatrix, ldpcErrors, maxIterations, activeIteration>>
  /\ UNCHANGED <<hammingVars, wordVars, gfVars, rsVars, polarVars>>

\* one iteration of the loop of bpIterations; the model follows a run for
\* at most MaxBpSteps iterations
BpIterate ==
  /\ bpPc = "running"
  /\ Len(iterations) < maxIterations
  /\ Len(iterations) < MaxBpSteps
  /\ LET step == BpIteration(hMatrix, ldpcReceived, varToCheck, Len(iterations) + 1)
     IN /\ iterations' = Append(iterations, step)
        /\ varToCheck' = step.varToCheck
        /\ bpPc' = IF step.syndromeOk \/ step.iteration >= maxIterations
                   THEN "done" ELSE "running"
  /\ UNCHANGED <<hMatrix, ldpcErrors, maxIterations, activeIteration>>
  /\ UNCHANGED <<hammingVars, wordVars, gfVars, rsVars, polarVars>>

\* Ldpc.toggleError(pos); the model injects at most MaxLdpcErrors errors
LdpcToggleError(pos) ==
  /\ bpPc = "done"
  /\ ldpcErrors' = IF pos \in ldpcErrors THEN ldpcErrors \ {pos} ELSE ldpcErrors \cup {pos}
  /\ Cardinality(ldpcErrors') <= MaxLdpcErrors
  /\ activeIteration' = 0
  /\ BpStarts(hMatrix, ldpcErrors', maxIterations)
  /\ UNCHANGED <<hMatrix, maxIterations>>
  /\ UNCHANGED <<hammingVars, wordVars, gfVars, rsVars, polarVars>>

\* Ldpc.clearErrors()
LdpcClearErrors ==
  /\ bpPc = "done"
  /\ ldpcErrors' = {}
  /\ activeIteration' = 0
  /\ BpStarts(hMatrix, {}, maxIterations)
  /\ UNCHANGED <<hMatrix, maxIterations>>
  /\ UNCHANGED <<hammingVars, wordVars, gfVars, rsVars, polarVars>>

\* Ldpc.randomErrors(): each position joins with probability p, and one
\* position is added to an empty draw, so any non-empty set can come out
LdpcRandomErrors ==
  /\ bpPc = "done"
  /\ \E errors \in SUBSET (0..(numVarNodes(hMatrix) - 1)) :
       /\ errors # {}
       /\ Cardinality(errors) <= MaxLdpcErrors
       /\ ldpcErrors' = errors
       /\ BpStarts(hMatrix, errors, maxIterations)
  /\ activeIteration' = 0
  /\ UNCHANGED <<hMatrix, maxIterations>>
  /\ UNCHANGED <<hammingVars, wordVars, gfVars, rsVars, polarVars>>

\* the maxIterations signal is written by the page's input
setMaxIterations(cap) ==
  /\ bpPc = "done"
  /\ maxIterations' = cap
  /\ BpStarts(hMatrix, ldpcErrors, cap)
  /\ UNCHANGED <<hMatrix, ldpcErrors, activeIteration>>
  /\ UNCHANGED <<hammingVars, wordVars, gfVars, rsVars, polarVars>>

\* Ldpc.toggleMatrixCell(i, j): the errors are cleared as well, the active
\* iteration is kept
toggleMatrixCell(i, j) ==
  /\ bpPc = "done"
  /\ hMatrix' = [hMatrix EXCEPT ![i + 1][j + 1] = 1 - @]
  /\ ldpcErrors' = {}
  /\ BpStarts(hMatrix', {}, maxIterations)
  /\ UNCHANGED <<maxIterations, activeIteration>>
  /\ UNCHANGED <<hammingVars, wordVars, gfVars, rsVars, polarVars>>

setActiveIteration(iter) ==
  /\ bpPc = "done"
  /\ activeIteration' = iter
  /\ UNCHANGED <<hMatrix, ldpcErrors, maxIterations, bpPc, varToCheck, iterations>>
  /\ UNCHANGED <<hammingVars, wordVars, gfVars, rsVars, polarVars>>

\* iteration caps the page is given: the default 50 and the small ones, with
\* 0, for which the loop body never runs
IterationCaps == (0..MaxBpSteps) \cup {50}

\* the cells of H the model toggles: four of the five ones of check 0, whose
\* row can so be left with a single variable
ToggleCells == {<<0, 1>>, <<0, 2>>, <<0, 3>>, <<0, 5>>}

LdpcNext ==
  \/ BpIterate
  \/ \E pos \in 0..(numVarNodes(hMatrix) - 1) : LdpcToggleError(pos)
  \/ LdpcClearErrors
  \/ LdpcRandomErrors
  \/ \E cap \in IterationCaps : setMaxIterations(cap)
  \/ \E iter \in 0..(Len(iterations) - 1) : setActiveIteration(iter)

LdpcMatrixNext ==
  \/ LdpcNext
  \/ \E cell \in ToggleCells : toggleMatrixCell(cell[1], cell[2])

(***************************************************************************)
(* Specifications                                                          *)
(***************************************************************************)

HammingInit == HammingConstructed /\ WordIdle /\ GfIdle /\ RsIdle /\ PolarIdle /\ LdpcIdle
SpecHamming == HammingInit /\ [][HammingNext]_vars

WordSpecInit == HammingConstructed /\ WordInit /\ GfIdle /\ RsIdle /\ PolarIdle /\ LdpcIdle
SpecHammingWord == WordSpecInit /\ [][WordNext]_vars

GfSpecInit == HammingConstructed /\ WordIdle /\ GfInit /\ RsIdle /\ PolarIdle /\ LdpcIdle
SpecGF == GfSpecInit /\ [][GfNext]_vars

RsSpecInit == HammingConstructed /\ WordIdle /\ GfIdle /\ RsInit /\ PolarIdle /\ LdpcIdle
SpecRS == RsSpecInit /\ [][RsNext]_vars

PolarSpecInit == HammingConstructed /\ WordIdle /\ GfIdle /\ RsIdle /\ PolarInit /\ LdpcIdle
SpecPolar == PolarSpecInit /\ [][PolarNext]_vars

RsPageInit == HammingConstructed /\ WordIdle /\ GfIdle /\ RsIdle /\ PolarIdle /\ LdpcIdle
SpecRsPage == RsPageInit /\ [][RsPageNext]_vars

\* the decoder on every received word: the all-zero and the all-one message
\* with every set of error positions
PolarDecoderInit ==
  /\ HammingConstructed /\ WordIdle /\ GfIdle /\ RsIdle /\ LdpcIdle
  /\ polarN \in PolarLengths
  /\ polarK \in 0..(2 ^ MaxLogN)
  /\ polarK <= polarN
  /\ erasureProb \in ErasureProbs
  /\ infoBits \in {[i \in 1..polarK |-> b] : b \in Bits}
  /\ polarErrors = {}
SpecPolarDecoder ==
  PolarDecoderInit /\ [][\E pos \in 0..(polarN - 1) : PolarToggleAnyError(pos)]_vars

\* the component as constructed, with K changed while a message is held
PolarResizeInit ==
  HammingConstructed /\ WordIdle /\ GfIdle /\ RsIdle /\ PolarIdle /\ LdpcIdle
PolarResizeNext ==
  \/ PolarNext
  \/ \E k \in 0..polarN : setK(k)
SpecPolarResize == PolarResizeInit /\ [][PolarResizeNext]_vars

LdpcSpecInit == HammingConstructed /\ WordIdle /\ GfIdle /\ RsIdle /\ PolarIdle /\ LdpcIdle
SpecLdpc == LdpcSpecInit /\ [][LdpcNext]_vars

\* the LDPC page with its parity-check matrix edited
SpecLdpcMatrix == LdpcSpecInit /\ [][LdpcMatrixNext]_vars

(***************************************************************************)
(* Claims                                                                  *)
(***************************************************************************)

\* C1 (as stated): whenever one bit of the codeword is flipped, at any index
\* of the 7-bit or the 8-bit word, the corrected word is the codeword.
C1_SingleFlipCorrected ==
  (errorPosition # NoError /\ errorPosition[1] < Len(encoded))
    => corrected.word = encoded

\* C2: with K >= 1 and at most floor(nsym / 2) corrupted symbols, decoding
\* succeeds and the first K symbols of the corrected word are the message.
C2_RoundTrip ==
  (rsPc = "decoded" /\ Len(rsMsg) >= 1 /\ rsErrCount <= rsNsym \div 2)
    => (rsResult.success /\ RsDecodedMessage(rsResult, Len(rsMsg)) = rsMsg)

\* C2's case: two corrupted symbols were located and repaired under nsym = 4
C2_Witness ==
  /\ rsPc = "decoded"
  /\ Len(rsMsg) = 2
  /\ rsNsym = 4
  /\ rsErrCount = 2
  /\ rsReceived # rsEncoded
  /\ rsResult.success
  /\ Len(rsResult.errorPositions) = 2
  /\ RsDecodedMessage(rsResult, 2) = rsMsg

\* C3: with no injected error, for every N = 2^k (N = 1 included), every K in
\* 0..N, the partition the channel ranking produces and every K-bit message,
\* the decoded bits at the information positions, read in ascending index
\* order, are the message.
C3_ZeroErrorRoundTrip ==
  (polarErrors = {} /\ Len(infoBits) = polarK)
    => (decodedInfoBits = infoBits /\ decodingSuccess)

\* C3's case: N = 8, K = 4, a message set by toggleInfoBit that has a 1 and
\* a 0, carried in u at the four best channels and decoded from the codeword
C3_Witness ==
  /\ polarN = 8
  /\ polarK = 4
  /\ polarErrors = {}
  /\ erasureProb = [num |-> 1, den |-> 2]
  /\ infoBits = <<0, 1, 1, 0>>
  /\ infoBitIndices = <<3, 5, 6, 7>>
  /\ polarReceived = polarEncoded
  /\ decodedInfoBits = infoBits

\* C4: with the default H, p = 0.15, damping 0.9 and the cap 50, for every
\* single flipped bit of the all-zero codeword the decoder ends converged
\* within the cap with the all-zero word decoded; while it runs it has not
\* reached the iteration bound of the model, so every such run ends.
C4_SingleErrorConverges ==
  (hMatrix = DEFAULT_H /\ Cardinality(ldpcErrors) = 1 /\ maxIterations = 50)
    => /\ bpPc = "running" => Len(iterations) < MaxBpSteps
       /\ bpPc = "done"
            => /\ finalResult.converged
               /\ finalResult.iterations <= 50
               /\ finalResult.decoded = ldpcCodeword

\* C4's case: bit 2 flipped; the first hard decision fails the syndrome
\* check and the fifth iteration decodes the all-zero word
C4_Witness ==
  /\ hMatrix = DEFAULT_H
  /\ ldpcErrors = {2}
  /\ maxIterations = 50
  /\ bpPc = "done"
  /\ Len(iterations) = 5
  /\ ~iterations[1].syndromeOk
  /\ finalResult.converged
  /\ finalResult.decoded = ldpcCodeword

\* C5: for b # 0, gfDiv(gfMul(a, b), b) returns a.
C5_DivUndoesMul ==
  (gfPc = "divided" /\ gfB # 0)
    => (~gfOut.quotient.threw /\ gfOut.quotient.value = gfA)

\* C5's case: a product whose logarithm is below the divisor's was divided
C5_Witness ==
  /\ gfPc = "divided"
  /\ gfA # 0
  /\ gfB # 0
  /\ At(gfLog, gfOut.product) < At(gfLog, gfB)
  /\ gfOut.quotient.value = gfA

\* C6: for a # 0, gfMul(a, gfInverse(a)) is 1.
C6_InverseIsUnit == gfPc = "inverted" => gfOut.unit = 1

\* C6's case: a = 1, whose logarithm is 0, so gfInverse reads gfExp[255]
C6_Witness ==
  /\ gfPc = "inverted"
  /\ gfA = 1
  /\ At(gfLog, gfA) = 0
  /\ gfOut.inverse = 1
  /\ gfOut.unit = 1

\* the decoder's verdict on an uncorrupted word
RsCleanVerdict ==
  /\ rsResult.success
  /\ rsResult.errorPositions = <<>>
  /\ rsResult.corrected = rsEncoded

\* C7 (as stated): for every message, the empty one included, the syndromes
\* of rsEncode(message, nsym) are zero and decoding the uncorrupted word
\* reports success, no error positions and the codeword itself.
C7_CleanCodewordAnyMessage ==
  /\ rsPc # "input" => rsCheckSyndromes(rsCalcSyndromes(rsEncoded, rsNsym))
  /\ (rsPc = "decoded" /\ rsErrCount = 0) => RsCleanVerdict

\* C7 (amended): the syndromes of rsEncode(message, nsym) are zero for every
\* message; decoding the uncorrupted word reports success, no error positions
\* and the codeword itself for every message of K >= 1 symbols, and reports
\* "no data" (success = false, empty word) for the empty message.
C7_CleanCodeword ==
  /\ rsPc # "input" => rsCheckSyndromes(rsCalcSyndromes(rsEncoded, rsNsym))
  /\ (rsPc = "decoded" /\ rsErrCount = 0 /\ Len(rsMsg) >= 1) => RsCleanVerdict
  /\ (rsPc = "decoded" /\ Len(rsMsg) = 0)
       => (~rsResult.success /\ rsResult.corrected = <<>> /\ rsResult.message = "no data")

\* C7's case: an uncorrupted codeword with four parity symbols was decoded
C7_Witness ==
  /\ rsPc = "decoded"
  /\ rsErrCount = 0
  /\ Len(rsMsg) = 2
  /\ rsNsym = 4
  /\ rsReceived = rsEncoded
  /\ rsResult.success

\* C8: rsEncode returns K + nsym symbols, the first K of them the message,
\* and leaves the message array as it was.
C8_Systematic ==
  rsPc # "input"
    => /\ Len(rsEncoded) = Len(rsMsg) + rsNsym
       /\ SubSeq(rsEncoded, 1, Len(rsMsg)) = rsMsg
       /\ rsMsgAfter = rsMsg

\* C8's case: a two-symbol message with a non-zero first symbol, whose
\* division writes into the buffer from the second message position on
C8_Witness ==
  /\ rsPc = "encoded"
  /\ Len(rsMsg) = 2
  /\ rsMsg[1] # 0
  /\ rsNsym = 4
  /\ Len(rsEncoded) = 6

\* C9 (as stated): with more than floor(nsym / 2) corrupted symbols decoding
\* reports failure.
C9_OverCapacityFails ==
  (rsPc = "decoded" /\ rsErrCount > rsNsym \div 2) => ~rsResult.success

\* C9 (amended): with more than floor(nsym / 2) corrupted symbols decoding
\* either reports failure through one of the two exceptions, or reports
\* success with a word that is not the transmitted codeword; it never hands
\* back the transmitted codeword.
C9_OverCapacityNeverRecovers ==
  (rsPc = "decoded" /\ rsErrCount > rsNsym \div 2)
    => \/ /\ ~rsResult.success
          /\ rsResult.message \in {"Too many errors to correct",
                                   "Could not find error positions"}
       \/ /\ rsResult.success
          /\ rsResult.corrected # rsEncoded

\* C9's case: two corrupted symbols under nsym = 2 accepted as one repaired error
C9_Witness ==
  /\ rsPc = "decoded"
  /\ rsNsym = 2
  /\ rsErrCount = 2
  /\ rsResult.success
  /\ Len(rsResult.errorPositions) = 1
  /\ rsResult.corrected # rsEncoded

\* C10: a failed decoding returns success = false, the received word symbol
\* for symbol, and empty position and magnitude lists.
C10_FailureKeepsWord ==
  (rsPc = "decoded" /\ ~rsResult.success)
    => /\ rsResult.corrected = rsReceived
       /\ rsResult.errorPositions = <<>>
       /\ rsResult.errorMagnitudes = <<>>

\* C10's case: the Chien search found fewer roots than the locator's degree
C10_Witness ==
  /\ rsPc = "decoded"
  /\ ~rsResult.success
  /\ rsResult.message = "Could not find error positions"
  /\ Len(rsReceived) >= 1
  /\ rsResult.corrected = rsReceived

(***************************************************************************)
(* C11  Hamming double-error detection: for every 4-bit data word, in both *)
(* modes, the codeword with any two distinct positions flipped has a       *)
(* non-zero syndrome value.                                                *)
(***************************************************************************)
C11_DoubleErrorDetected ==
  wordPc = "decoded"
    => \A d \in [1..4 -> Bits] :
         \A i, j \in 0..(WordLength(wordExtended) - 1) :
           (i < j /\ wordReceived
                       = HammingReceived(HammingReceived(HammingEncoded(d, wordExtended),
                                                         <<i>>), <<j>>))
             => wordOut.syndrome.value # 0

\* an extended codeword with the overall parity bit and one more bit flipped
C11_Witness ==
  /\ wordPc = "decoded"
  /\ wordExtended
  /\ wordReceived
       = HammingReceived(HammingReceived(HammingEncoded(<<1, 0, 1, 1>>, TRUE), <<0>>), <<5>>)
  /\ wordOut.syndrome.value = 5

(***************************************************************************)
(* C12  Hamming syndrome characterises codewords: for every received word  *)
(* of the selected length, the syndrome value is 0 if and only if the word *)
(* is the encoding of some 4-bit data word (in extended mode with the      *)
(* overall parity bit at index 0).                                         *)
(***************************************************************************)
C12_SyndromeZeroIffCodeword ==
  wordPc = "decoded"
    => (wordOut.syndrome.value = 0
          <=> \E d \in [1..4 -> Bits] : wordReceived = HammingEncoded(d, wordExtended))

(***************************************************************************)
(* C19  Hamming(7,4) error localisation: in non-extended mode, for every   *)
(* data word and every flipped position i in 0..6, the syndrome value is   *)
(* i + 1, the correction reports errorAt = i and its word is the original  *)
(* codeword.                                                               *)
(***************************************************************************)
C19_ErrorLocalised ==
  (~useExtended /\ errorPosition # NoError /\ errorPosition[1] \in 0..6)
    => /\ received # encoded
       /\ syndrome.value = errorPosition[1] + 1
       /\ corrected.errorAt = errorPosition[1]
       /\ corrected.word = encoded

\* 1-indexed position 5 flipped: errorAt = 4
C19_Witness ==
  /\ ~useExtended
  /\ errorPosition = <<4>>
  /\ syndrome.value = 5
  /\ corrected.errorAt = 4
  /\ corrected.word = encoded

(***************************************************************************)
(* C18  GF(2^8) division by zero fails fast: for every dividend a in       *)
(* 0..255, a = 0 included, gfDiv(a, 0) raises the division-by-zero error   *)
(* and returns no value; for every b # 0, gfDiv never raises.              *)
(***************************************************************************)
C18_DivisionByZeroThrows ==
  gfPc = "quotient"
    => /\ gfB = 0 => gfOut.quotient = Throw("Division by zero in GF")
       /\ gfB # 0 => /\ ~gfOut.quotient.threw
                     /\ gfOut.quotient.value \in 0..(GF_SIZE - 1)

C18_Witness ==
  /\ gfPc = "quotient"
  /\ gfA = 0
  /\ gfB = 0
  /\ gfOut.quotient.threw
  /\ gfOut.quotient.value = <<>>

(***************************************************************************)
(* C15  Polar single-error correction: for N = 8, K = 4 and an erasure     *)
(* probability of at most 0.5 the Bhattacharyya ranking selects the        *)
(* information set {3, 5, 6, 7}, and for every 4-bit message and every     *)
(* single flipped codeword position 0..7 SC decoding recovers the four     *)
(* information bits.                                                       *)
(***************************************************************************)
C15_SingleErrorCorrected ==
  (/\ polarN = 8
   /\ polarK = 4
   /\ erasureProb.num * 2 <= erasureProb.den
   /\ Cardinality(polarErrors) = 1)
    => /\ infoBitIndices = <<3, 5, 6, 7>>
       /\ polarReceived # polarEncoded
       /\ decodedInfoBits = infoBits
       /\ decodingSuccess

\* the flip on index 7, the most reliable channel
C15_Witness ==
  /\ polarN = 8
  /\ polarK = 4
  /\ erasureProb = [num |-> 1, den |-> 4]
  /\ infoBits = <<1, 1, 0, 1>>
  /\ polarErrors = {7}
  /\ decodedInfoBits = infoBits

(***************************************************************************)
(* C16  Polar channel partition: for every N (a power of two) and          *)
(* 0 <= K <= N, the information set and the frozen set are disjoint and    *)
(* together cover 0..N-1, the information set has exactly K indices and    *)
(* the frozen set N - K, and every information channel's Bhattacharyya     *)
(* parameter is at most every frozen channel's parameter.                  *)
(***************************************************************************)
C16_ChannelPartition ==
  LET params == bhattacharyyaParams
      indices == infoBitIndices
      frozen == frozenBits
      info == {indices[k] : k \in 1..Len(indices)}
  IN /\ info \cap frozen = {}
     /\ info \cup frozen = 0..(polarN - 1)
     /\ Len(indices) = polarK
     /\ Cardinality(info) = polarK
     /\ Cardinality(frozen) = polarN - polarK
     /\ \A i \in info : \A f \in frozen : At(params, i) <= At(params, f)

\* three information channels out of eight, with distinct parameters
C16_Witness ==
  /\ polarN = 8
  /\ polarK = 3
  /\ erasureProb = [num |-> 1, den |-> 2]
  /\ infoBitIndices = <<5, 6, 7>>
  /\ frozenBits = {0, 1, 2, 3, 4}
  /\ At(bhattacharyyaParams, 5) < At(bhattacharyyaParams, 3)

(***************************************************************************)
(* C17  Input-length violations are reported, not absorbed: when the       *)
(* message handed to polar encoding has a length different from K, the     *)
(* codec reports an input violation before encoding; it never encodes the  *)
(* message with its surplus bits dropped or its missing bits taken as 0,   *)
(* and never reports a decoding success for it.                            *)
(***************************************************************************)
C17_LengthViolationReported ==
  Len(infoBits) # polarK
    => LET indices == infoBitIndices
           resized == Array([i \in 1..polarK |->
                        IF i <= Len(infoBits) THEN infoBits[i] ELSE 0])
       IN /\ inputVector # PolarInputVector(polarN, indices, resized)
          /\ ~decodingSuccess

(***************************************************************************)
(* C13  LDPC all-zero fixed point: with no injected errors on the all-zero *)
(* codeword and an iteration cap >= 1, the first iteration has an all-zero *)
(* hard decision and a passing syndrome, so the decoder returns            *)
(* converged = true, iterations = 1 and decoded = all zeros, for the       *)
(* default H and for every H reached from it by toggleMatrixCell.          *)
(***************************************************************************)
C13_AllZeroFixedPoint ==
  (ldpcErrors = {} /\ maxIterations >= 1)
    => /\ bpPc = "running" => iterations = <<>>
       /\ bpPc = "done"
            => /\ Len(iterations) = 1
               /\ iterations[1].decoded = ldpcCodeword
               /\ iterations[1].syndromeOk
               /\ finalResult.converged
               /\ finalResult.iterations = 1
               /\ finalResult.decoded = ldpcCodeword

\* check 0 left with variable 7 alone: its message is Infinity, the belief
\* of variable 7 is Infinity and the next variable-to-check message is NaN
C13_Witness ==
  /\ hMatrix[1] = <<0, 0, 0, 0, 0, 0, 0, 1>>
  /\ ldpcErrors = {}
  /\ maxIterations = 1
  /\ bpPc = "done"
  /\ iterations[1].checkToVar[1][8] = Infinity
  /\ iterations[1].beliefs[8] = Infinity
  /\ varToCheck[1][8] = NaN
  /\ finalResult.converged

(***************************************************************************)
(* C14  LDPC decoding is bounded and non-convergence is not fatal: for     *)
(* every H, received word and cap maxIter >= 1 the decoder performs at     *)
(* most maxIter iterations; while it runs the cap is not yet used up, and  *)
(* when it has returned with no iteration's hard decision satisfying all   *)
(* parity checks, the result is converged = false, iterations = maxIter    *)
(* and decoded = the hard decision of the last iteration.                  *)
(***************************************************************************)
C14_BoundedAndNotFatal ==
  maxIterations >= 1
    => /\ Len(iterations) <= maxIterations
       /\ bpPc = "running" => Len(iterations) < maxIterations
       /\ (bpPc = "done" /\ \A k \in 1..Len(iterations) : ~iterations[k].syndromeOk)
            => /\ ~finalResult.converged
               /\ finalResult.iterations = maxIterations
               /\ finalResult.decoded = HardDecision(iterations[maxIterations].beliefs)

\* a run on an edited H that uses up its cap of three iterations and ends on
\* a hard decision that is neither the received word nor the codeword
C14_Witness ==
  /\ bpPc = "done"
  /\ maxIterations = 3
  /\ Len(iterations) = 3
  /\ hMatrix # DEFAULT_H
  /\ \A k \in 1..3 : ~iterations[k].syndromeOk
  /\ ~finalResult.converged
  /\ finalResult.decoded # ldpcReceived
  /\ finalResult.decoded # ldpcCodeword

(***************************************************************************)
(* C20  LDPC early stopping: the iteration trace ends at the first         *)
(* iteration whose hard decision satisfies every parity check of H (every  *)
(* trace entry except the last has syndromeOk = false), and the returned   *)
(* converged flag is true if and only if the returned decoded bits have an *)
(* all-zero syndrome under H.                                              *)
(***************************************************************************)
C20_ConvergedIffZeroSyndrome ==
  /\ \A k \in 1..(Len(iterations) - 1) : ~iterations[k].syndromeOk
  /\ bpPc = "done"
       => (finalResult.converged
             <=> \A i \in 1..numCheckNodes(hMatrix) :
                   RowParity(hMatrix, finalResult.decoded, i, 1) = 0)

(***************************************************************************)
(* C20, amended: every trace entry except the last has syndromeOk = false  *)
(* and the loop goes on only after a failing entry; when at least one      *)
(* iteration ran, converged is true if and only if the returned bits have  *)
(* an all-zero syndrome under H; with an empty trace (cap 0) the received  *)
(* word is returned with converged = false whatever its syndrome.          *)
(***************************************************************************)
C20_EarlyStopping ==
  /\ \A k \in 1..(Len(iterations) - 1) : ~iterations[k].syndromeOk
  /\ (bpPc = "running" /\ iterations # <<>>) => ~iterations[Len(iterations)].syndromeOk
  /\ (bpPc = "done" /\ iterations # <<>>)
       => (finalResult.converged
             <=> \A i \in 1..numCheckNodes(hMatrix) :
                   RowParity(hMatrix, finalResult.decoded, i, 1) = 0)
  /\ (bpPc = "done" /\ iterations = <<>>)
       => /\ maxIterations = 0
          /\ ~finalResult.converged
          /\ finalResult.iterations = 0
          /\ finalResult.decoded = ldpcReceived

\* a run that stops at its fifth iteration, below the cap of six
C20_Witness ==
  /\ bpPc = "done"
  /\ maxIterations = 6
  /\ Len(iterations) = 5
  /\ \A k \in 1..4 : ~iterations[k].syndromeOk
  /\ iterations[5].syndromeOk
  /\ finalResult.converged

(***************************************************************************)
(* C24  Hamming out-of-range syndrome is unreachable: for every received   *)
(* word of the selected length a non-zero syndrome maps to an index inside *)
(* the word (syndrome - 1 in 0..6 non-extended, syndrome in 1..7           *)
(* extended), so the correction never returns the 'syndrome points outside *)
(* the word' result and flips exactly one bit when the syndrome is         *)
(* non-zero.                                                               *)
(***************************************************************************)
C24_SyndromeInsideWord ==
  wordPc = "decoded"
    => /\ wordOut.corrected.message # "syndrome points outside the word"
       /\ wordOut.syndrome.value # 0
            => /\ wordOut.corrected.message = "error corrected"
               /\ wordOut.corrected.errorAt
                    = (IF wordExtended THEN wordOut.syndrome.value
                                       ELSE wordOut.syndrome.value - 1)
               /\ wordOut.corrected.errorAt
                    \in (IF wordExtended THEN 1..7 ELSE 0..6)
               /\ {k \in 1..Len(wordReceived) : wordOut.corrected.word[k] # wordReceived[k]}
                    = {wordOut.corrected.errorAt + 1}

\* the largest syndrome of an extended word: the last bit is flipped
C24_Witness ==
  /\ wordPc = "decoded"
  /\ wordExtended
  /\ wordOut.syndrome.value = 7
  /\ wordOut.corrected.errorAt = 7
  /\ wordOut.corrected.word[8] # wordReceived[8]

(***************************************************************************)
(* C21  GF(2^8) table construction: after initGF the antilog entries at    *)
(* indices 0..254 are 255 pairwise distinct values in 1..255,              *)
(* gfLog[gfExp[i]] = i for every i in 0..254, and gfExp[i] = gfExp[i-255]  *)
(* for every i in 255..511.                                                *)
(***************************************************************************)
C21_TablesInverse ==
  gfPc = "looked up"
    => /\ gfA <= 254
            => /\ gfOut.exp.a \in 1..255
               /\ gfOut.logOfExp.a = gfA
               /\ (gfB <= 254 /\ gfB # gfA) => gfOut.exp.b # gfOut.exp.a
       \* i = gfA + 255 and i = gfA + 256 range over 255..511
       /\ gfOut.exp.wrapped = gfOut.exp.a
       /\ gfOut.exp.wrappedNext = gfOut.exp.next

\* alpha^8 = 29 is the first power reduced by the polynomial
C21_Witness ==
  /\ gfPc = "looked up"
  /\ gfA = 8
  /\ gfB = 254
  /\ gfOut.exp.a = 29
  /\ gfOut.logOfExp = [a |-> 8, b |-> 254]
  /\ gfOut.exp.wrapped = 29

(***************************************************************************)
(* C22  Polar SC butterfly matches the encoder: for every N (a power of    *)
(* two), every frozen set and every received word, the partial-sum vector  *)
(* returned by the top-level call of the recursive decoder is the polar    *)
(* encoding (decoded vector times G_N modulo 2) of the decoded bit vector  *)
(* it wrote, and the same holds for the sub-block of every call at every   *)
(* recursion level.                                                        *)
(***************************************************************************)
C22_ButterflyMatchesEncoder ==
  LET recv == polarReceived
      frozen == frozenBits
      decoded == scDecode(recv, frozen, polarN)
      calls == scDecodeCalls(recv, frozen, polarN)
  IN /\ \E call \in calls : call.offset = 0 /\ call.size = polarN
     /\ \A call \in calls :
          call.enc = PolarEncoded(SubSeq(decoded, call.offset + 1, call.offset + call.size),
                                  generateG(Log2(call.size)), call.size)

\* a received word three flips away from the codeword, decoded to a message
\* that was not sent
C22_Witness ==
  /\ polarN = 8
  /\ polarK = 4
  /\ Cardinality(polarErrors) = 3
  /\ decodedInfoBits # infoBits
  /\ \E call \in scDecodeCalls(polarReceived, frozenBits, polarN) :
       /\ call.offset = 0
       /\ call.size = 8
       /\ call.enc # polarEncoded
       /\ call.enc = PolarEncoded(polarDecoded, generatorMatrix, 8)

(***************************************************************************)
(* C23  Reed-Solomon injected-error budget: from the initial state, after  *)
(* any sequence of toggleError, clearErrors, randomErrors, setNSymbols and *)
(* onMessageInput calls the number of injected error positions never       *)
(* exceeds floor(nSymbols / 2); a step that writes nSymbols or             *)
(* messageInput (setNSymbols, onMessageInput) leaves the error set empty,  *)
(* and toggleError on a full set only ever removes a position.             *)
(***************************************************************************)
C23_ErrorBudget ==
  /\ [](Cardinality(rsErrorPositions) <= nSymbols \div 2)
  /\ [][/\ ((nSymbols' # nSymbols \/ messageInput' # messageInput)
              => (rsErrorPositions' = {}))
         /\ ((/\ Cardinality(rsErrorPositions) = nSymbols \div 2
              /\ \E pos \in 0..(Len(messageInput) + nSymbols - 1) : RsToggleError(pos))
              => (/\ rsErrorPositions' \subseteq rsErrorPositions
                  /\ Cardinality(rsErrorPositions') >= Cardinality(rsErrorPositions) - 1))]_vars

\* the full set of the default page: two positions with nSymbols = 4
C23_Witness ==
  /\ nSymbols = 4
  /\ messageInput = <<72, 101, 108, 108, 111, 33>>
  /\ rsErrorPositions = {0, 9}

(***************************************************************************)
(* C25  Reed-Solomon success implies a valid codeword: whenever decoding   *)
(* reports success, the corrected word has all-zero syndromes, the number  *)
(* of corrected positions is at most floor(nsym / 2), and the reported     *)
(* positions are distinct indices inside the word.                         *)
(***************************************************************************)
C25_SuccessIsCodeword ==
  (rsPc = "decoded" /\ rsResult.success)
    => /\ rsCheckSyndromes(RsSyndromes(rsResult.corrected, rsNsym))
       /\ Len(rsResult.errorPositions) <= rsNsym \div 2
       /\ \A k \in 1..Len(rsResult.errorPositions) :
            /\ rsResult.errorPositions[k] \in 0..(Len(rsReceived) - 1)
            /\ \A l \in 1..Len(rsResult.errorPositions) :
                 k # l => rsResult.errorPositions[k] # rsResult.errorPositions[l]

=============================================================================
